---- MODULE Spec2Model ----
(***************************************************************************)
(* A model of the caption core of the video pipeline:                      *)
(*   src/src/modules/caption_generator.py  (words -> sentences -> chunks   *)
(*                                          -> emotion-tagged captions)    *)
(*   src/src/modules/capcut_generator.py   (captions -> project document   *)
(*                                          -> captions)                   *)
(*   src/main.py, src/src/config.py        (main(): directories, validate, *)
(*                                          the steps of the pipeline)     *)
(*                                                                         *)
(* Specifications: Spec (generate() on recognized words), SpecEmotion      *)
(* (generate() on texts and labels chosen for the emotion step),           *)
(* SpecTimeline (create_project then load_latest_project), SpecLoader      *)
(* (load_latest_project on documents of any origin), SpecMain (main()).    *)
(*                                                                         *)
(* Strings whose characters matter (word texts, caption texts, keyword     *)
(* tables, raw classifier labels) are sequences of one-character strings,  *)
(* so that lower(), " ".join and the substring test `w in t` are computed  *)
(* character by character.                                                 *)
(*                                                                         *)
(* A float number of seconds is represented by the integer number of       *)
(* ticks it holds, TicksPerMicro ticks to the microsecond: the product     *)
(* seconds * 1000000 is then ticks / TicksPerMicro, which need not be a    *)
(* whole number, exactly as the float product need not be.                 *)
(***************************************************************************)
EXTENDS Integers, Sequences, FiniteSets, TLC

VARIABLES
    Config,                 \* class Config: the settings read from the environment
    libs,                   \* what importlib.util.find_spec finds: "all", "missing", "raises"
    ADVANCED_MODE,          \* module global of caption_generator.py
    advanced_libs_checked,  \* module global _advanced_libs_checked
    embedding_model,        \* CaptionGenerator.embedding_model: "None" or "loaded"
    emotion_classifier,     \* CaptionGenerator.emotion_classifier: "None" or "loaded"
    pc,                     \* position of the running generate() call
    asr_words,              \* argument of the running generate() call
    use_advanced,           \* local of generate()
    sentences,              \* local of generate()
    semantic_chunks,        \* local of generate()
    captions,               \* local of generate(), its return value
    scoring,                \* what the scorer did in this call (similarities, exception)
    classified,             \* what the classifier did for the caption appended last
    embedding_loads,        \* number of SentenceTransformer(...) constructions that returned
    classifier_loads,       \* number of pipeline(...) constructions that returned
    tpc,                    \* position of the project round trip: "off", "idle", "written", "loaded"
    in_captions,            \* create_project's argument captions
    video_file,             \* create_project's argument video_file: "None", or a file name
    video_present,          \* os.path.exists(video_file) in create_project
    project_data,           \* the content of draft_content.json of the latest project
    load_result,            \* what load_latest_project returned or raised
    asset_exists,           \* what os.path.exists answered in load_latest_project
    main_pc,                \* position of main() and of VideoPipeline.process
    fs,                     \* the paths of the configuration that exist on disk
    stages,                 \* the stages process() has called so far, in order
    projects,               \* the project folders of CAPCUT_PROJECTS_FOLDER, as os.listdir lists them
    latest_project,         \* the folder load_latest_project chose in process()
    render_args             \* what process() handed to VideoRenderer.render

genvars == << Config, libs, ADVANCED_MODE, advanced_libs_checked, embedding_model,
              emotion_classifier, pc, asr_words, use_advanced, sentences,
              semantic_chunks, captions, scoring, classified, embedding_loads,
              classifier_loads >>

tlvars == << tpc, in_captions, video_file, video_present, project_data, load_result,
            asset_exists >>

mainvars == << main_pc, fs, stages, projects, latest_project, render_args >>

vars == << genvars, tlvars, mainvars >>

----------------------------------------------------------------------------
\* Bounds of the model.

\* Longest word list handed to generate().
MaxWords == 3
\* Longest caption list handed to create_project().
MaxCaptions == 2
\* Latest caption start (ticks) handed to create_project().
MaxTick == 3
\* Ticks to the microsecond: the resolution of the float timestamps.
TicksPerMicro == 2

----------------------------------------------------------------------------
\* Strings as character sequences.

UpperAlphabet ==
    <<"A", "B", "C", "D", "E", "F", "G", "H", "I", "J", "K", "L", "M",
      "N", "O", "P", "Q", "R", "S", "T", "U", "V", "W", "X", "Y", "Z">>

LowerAlphabet ==
    <<"a", "b", "c", "d", "e", "f", "g", "h", "i", "j", "k", "l", "m",
      "n", "o", "p", "q", "r", "s", "t", "u", "v", "w", "x", "y", "z">>

\* str.lower() on one character.
LowerChar(c) ==
    IF \E k \in 1..Len(UpperAlphabet) : UpperAlphabet[k] = c
    THEN LowerAlphabet[CHOOSE k \in 1..Len(UpperAlphabet) : UpperAlphabet[k] = c]
    ELSE c

\* str.lower()
Lower(s) == [k \in 1..Len(s) |-> LowerChar(s[k])]

\* `w in t` for two strings: w occurs in t as a contiguous substring.
Contains(t, w) ==
    \E off \in 0..(Len(t) - Len(w)) : \A k \in 1..Len(w) : t[off + k] = w[k]

\* " ".join(parts)
RECURSIVE Join(_)
Join(parts) ==
    IF parts = <<>> THEN <<>>
    ELSE IF Len(parts) = 1 THEN parts[1]
    ELSE parts[1] \o <<" ">> \o Join(Tail(parts))

\* [f(x) for x in s] for a sequence of records and a field
Field(s, f) == [k \in 1..Len(s) |-> s[k][f]]

RECURSIVE Flatten(_)
Flatten(ss) == IF ss = <<>> THEN <<>> ELSE ss[1] \o Flatten(Tail(ss))

----------------------------------------------------------------------------
\* Configuration (src/config.py) and the inputs of generate().

\* SIMILARITY_THRESHOLD, in hundredths (the default 0.7).
SIMILARITY_THRESHOLD == 70

\* Cosine similarities the scorer reports, in hundredths: one equal to the
\* threshold, one above it.
Similarities == {70, 90}

Configs ==
    [ ENABLE_SEMANTIC_CHUNKING : BOOLEAN,
      ENABLE_ADVANCED_EMOTIONS : BOOLEAN,
      MAX_SENTENCES_PER_CHUNK  : {0, 1, 2},
      MAX_PAUSE_GAP            : {1},
      MAX_WORDS_PER_SENTENCE   : {1, 2} ]

LibStates == {"all", "missing", "raises"}

\* Texts of recognized words.
Vocabulary == { <<"H", "a", "p", "p", "y">>, <<"o", "k">> }
\* Pause before a word (ticks): one equal to MAX_PAUSE_GAP, one above it.
Gaps == {1, 2}
\* Length of a word (ticks).
Durations == {1}

\* Time-ordered, non-overlapping word lists of at most n words, the first
\* starting t + g ticks in for a g of gaps, the others after a pause of
\* Gaps, as the recognizer produces them (transcriber.py).
RECURSIVE WordLists(_, _, _)
WordLists(t, n, gaps) ==
    IF n = 0 THEN { <<>> }
    ELSE { <<>> } \cup
         UNION { { << [word |-> v, start |-> t + g, end |-> t + g + d] >> \o rest :
                     rest \in WordLists(t + g + d, n - 1, Gaps) } :
                 << v, g, d >> \in Vocabulary \X gaps \X Durations }

AsrInputs == WordLists(0, MaxWords, {0})

----------------------------------------------------------------------------
\* _check_advanced_libs(): the value it returns and leaves in ADVANCED_MODE.
check_advanced_libs ==
    IF advanced_libs_checked THEN ADVANCED_MODE
    ELSE IF libs = "all"
         THEN Config.ENABLE_ADVANCED_EMOTIONS /\ Config.ENABLE_SEMANTIC_CHUNKING
         ELSE IF libs = "missing" THEN ADVANCED_MODE
         ELSE FALSE

----------------------------------------------------------------------------
\* CaptionGenerator._group_words_into_sentences

make_sentence(current_sentence) ==
    [ words |-> current_sentence,
      text  |-> Join(Field(current_sentence, "word")),
      start |-> current_sentence[1].start,
      end   |-> current_sentence[Len(current_sentence)].end ]

\* should_end without the flush at the last word (line 125 lost).
should_end_no_last(words, i, current_sentence) ==
    \/ i < Len(words) /\ words[i + 1].start - words[i].end > Config.MAX_PAUSE_GAP
    \/ Len(current_sentence) > Config.MAX_WORDS_PER_SENTENCE

\* should_end without the test of the pause (lines 119-123 lost).
should_end_without_pause(words, i, current_sentence) ==
    \/ i = Len(words)
    \/ Len(current_sentence) > Config.MAX_WORDS_PER_SENTENCE

\* should_end after word i was appended, giving current_sentence.
should_end(words, i, current_sentence) ==
    \/ IF i < Len(words)
       THEN words[i + 1].start - words[i].end > Config.MAX_PAUSE_GAP
       ELSE TRUE
    \/ Len(current_sentence) > Config.MAX_WORDS_PER_SENTENCE

RECURSIVE group_loop(_, _, _, _)
group_loop(words, i, current_sentence, acc) ==
    IF i > Len(words) THEN acc
    ELSE LET cur == Append(current_sentence, words[i])
         IN  IF should_end(words, i, cur) /\ cur # <<>>
             THEN group_loop(words, i + 1, <<>>, Append(acc, make_sentence(cur)))
             ELSE group_loop(words, i + 1, cur, acc)

group_words_into_sentences(words) == group_loop(words, 1, <<>>, <<>>)

----------------------------------------------------------------------------
\* CaptionGenerator._semantic_chunking

\* [sentences] in place of [[s] for s in sentences]
one_chunk(sents) == IF sents = <<>> THEN <<>> ELSE << sents >>

\* [[s] for s in sentences]
singleton_chunks(sents) == [k \in 1..Len(sents) |-> << sents[k] >>]

\* What the scorer does in one call on n >= 2 sentences: fail is "none", or
\* the place an exception is raised ("load": the imports or
\* SentenceTransformer(), "encode", "pair": the cosine_similarity call of
\* loop index at); sims[i - 1] is the similarity of sentences i-1 and i that
\* the loop obtained.
Scorings(n) ==
    [ fail : {"none"}, at : {0}, sims : [1..(n - 1) -> Similarities] ]
      \cup [ fail : {"load", "encode"}, at : {0}, sims : { <<>> } ]
      \cup UNION { [ fail : {"pair"}, at : {k}, sims : [1..(k - 2) -> Similarities] ] :
                   k \in 2..n }

NoScoring == [ fail |-> "unused", at |-> 0, sims |-> <<>> ]

\* The test of line 173 with >= for the similarity.
joins_current_chunk_at_threshold(similarity, current_chunk) ==
    /\ similarity >= SIMILARITY_THRESHOLD
    /\ Len(current_chunk) < Config.MAX_SENTENCES_PER_CHUNK

\* The test of line 173: the sentence is appended to the current chunk.
joins_current_chunk(similarity, current_chunk) ==
    /\ similarity > SIMILARITY_THRESHOLD
    /\ Len(current_chunk) < Config.MAX_SENTENCES_PER_CHUNK

\* The loop of lines 167-177 from index i on; raised is TRUE when
\* cosine_similarity raised before the loop ended.
RECURSIVE chunk_loop(_, _, _, _, _)
chunk_loop(sents, sc, i, current_chunk, chunks) ==
    IF i > Len(sents)
    THEN [ raised |-> FALSE,
           chunks |-> IF current_chunk # <<>> THEN Append(chunks, current_chunk)
                      ELSE chunks ]
    ELSE IF sc.fail = "pair" /\ sc.at = i
    THEN [ raised |-> TRUE, chunks |-> chunks ]
    ELSE IF joins_current_chunk(sc.sims[i - 1], current_chunk)
    THEN chunk_loop(sents, sc, i + 1, Append(current_chunk, sents[i]), chunks)
    ELSE chunk_loop(sents, sc, i + 1, << sents[i] >>, Append(chunks, current_chunk))

\* An except branch that returns the chunks closed so far.
scoring_failed_partial(sents, closed) == closed

\* The except branch: closed holds the chunks closed before the exception.
scoring_failed(sents, closed) == singleton_chunks(sents)

semantic_chunking(sents, sc) ==
    IF Len(sents) <= 1 THEN singleton_chunks(sents)
    ELSE IF sc.fail \in {"load", "encode"}
    THEN scoring_failed(sents, <<>>)
    ELSE LET r == chunk_loop(sents, sc, 2, << sents[1] >>, <<>>)
         IN  IF r.raised THEN scoring_failed(sents, r.chunks) ELSE r.chunks

\* SentenceTransformer(...) is called and returns in this call: lines
\* 156-157.
embedding_constructed(sents, sc) ==
    Len(sents) > 1 /\ sc.fail # "load" /\ embedding_model = "None"

\* self.embedding_model after the call.
embedding_model_after(sents, sc) ==
    IF Len(sents) <= 1 \/ sc.fail = "load" THEN embedding_model
    ELSE "loaded"

----------------------------------------------------------------------------
\* Emotion classification

HappyWords ==
    << <<"h", "a", "p", "p", "y">>, <<"j", "o", "y">>,
       <<"l", "a", "u", "g", "h">>, <<"s", "m", "i", "l", "e">>,
       <<"g", "r", "e", "a", "t">>, <<"a", "m", "a", "z", "i", "n", "g">>,
       <<"l", "o", "v", "e">> >>

SadWords ==
    << <<"s", "a", "d">>, <<"c", "r", "y">>, <<"t", "e", "a", "r", "s">>,
       <<"t", "e", "r", "r", "i", "b", "l", "e">>,
       <<"a", "w", "f", "u", "l">>, <<"b", "a", "d">> >>

AngryWords ==
    << <<"a", "n", "g", "r", "y">>, <<"m", "a", "d">>, <<"r", "a", "g", "e">>,
       <<"h", "a", "t", "e">>, <<"f", "u", "r", "i", "o", "u", "s">> >>

SurprisedWords ==
    << <<"w", "o", "w">>, <<"s", "u", "r", "p", "r", "i", "s", "e">>,
       <<"s", "h", "o", "c", "k", "e", "d">>,
       <<"a", "m", "a", "z", "i", "n", "g">>,
       <<"i", "n", "c", "r", "e", "d", "i", "b", "l", "e">> >>

\* any(w in t for w in ws)
AnyIn(ws, t) == \E k \in 1..Len(ws) : Contains(t, ws[k])

\* _classify_emotion_basic with the surprised test moved to the front.
classify_emotion_basic_surprised_first(text) ==
    LET t == Lower(text)
    IN  IF AnyIn(SurprisedWords, t) THEN "surprised"
        ELSE IF AnyIn(HappyWords, t) THEN "happy"
        ELSE IF AnyIn(SadWords, t) THEN "sad"
        ELSE IF AnyIn(AngryWords, t) THEN "angry"
        ELSE "neutral"

\* CaptionGenerator._classify_emotion_basic
classify_emotion_basic(text) ==
    LET t == Lower(text)
    IN  IF AnyIn(HappyWords, t) THEN "happy"
        ELSE IF AnyIn(SadWords, t) THEN "sad"
        ELSE IF AnyIn(AngryWords, t) THEN "angry"
        ELSE IF AnyIn(SurprisedWords, t) THEN "surprised"
        ELSE "neutral"

\* emotion_mapping, as (key, value) pairs
emotion_mapping ==
    { << <<"j", "o", "y">>, "happy" >>,
      << <<"h", "a", "p", "p", "i", "n", "e", "s", "s">>, "happy" >>,
      << <<"s", "a", "d", "n", "e", "s", "s">>, "sad" >>,
      << <<"a", "n", "g", "e", "r">>, "angry" >>,
      << <<"f", "e", "a", "r">>, "sad" >>,
      << <<"s", "u", "r", "p", "r", "i", "s", "e">>, "surprised" >>,
      << <<"d", "i", "s", "g", "u", "s", "t">>, "angry" >>,
      << <<"n", "e", "u", "t", "r", "a", "l">>, "neutral" >> }

\* emotion_mapping.get(emotion, 'unknown')
mapped_emotion_default_unknown(emotion) ==
    IF \E kv \in emotion_mapping : kv[1] = emotion
    THEN (CHOOSE kv \in emotion_mapping : kv[1] = emotion)[2]
    ELSE "unknown"

\* emotion_mapping.get(emotion, 'neutral')
mapped_emotion(emotion) ==
    IF \E kv \in emotion_mapping : kv[1] = emotion
    THEN (CHOOSE kv \in emotion_mapping : kv[1] = emotion)[2]
    ELSE "neutral"

\* Raw labels the classifier returns: two of the table (one in upper case)
\* and one that is not in it.
RawLabels ==
    { <<"j", "o", "y">>, <<"S", "U", "R", "P", "R", "I", "S", "E">>,
      <<"L", "A", "B", "E", "L", "_", "0">> }

\* What one advanced classification does: it returns a label, or raises in
\* the import or in pipeline() ("load_raises") or in the classifier call
\* ("call_raises").
Classifications ==
    [ kind : {"label"}, label : RawLabels ]
      \cup [ kind : {"load_raises", "call_raises"}, label : { <<>> } ]

NoClassification == [ kind |-> "unused", label |-> <<>> ]

\* _classify_emotion_advanced with an except branch that returns 'neutral'.
classify_emotion_advanced_no_fallback(text, oc) ==
    IF oc.kind = "label" THEN mapped_emotion(Lower(oc.label)) ELSE "neutral"

\* CaptionGenerator._classify_emotion_advanced
classify_emotion_advanced(text, oc) ==
    IF oc.kind = "label" THEN mapped_emotion(Lower(oc.label))
    ELSE classify_emotion_basic(text)

\* The condition of CaptionGenerator._classify_emotion
advanced_selected == ADVANCED_MODE /\ Config.ENABLE_ADVANCED_EMOTIONS

\* CaptionGenerator._classify_emotion
classify_emotion(text, oc) ==
    IF advanced_selected THEN classify_emotion_advanced(text, oc)
    ELSE classify_emotion_basic(text)

\* pipeline(...) constructed on every classification, the test of line 204
\* lost.
classifier_constructed_every_time(oc) ==
    advanced_selected /\ oc.kind \in {"label", "call_raises"}

\* pipeline(...) is called and returns in this classification: lines
\* 204-209.
classifier_constructed(oc) ==
    /\ advanced_selected
    /\ oc.kind \in {"label", "call_raises"}
    /\ emotion_classifier = "None"

\* self.emotion_classifier after one classification.
emotion_classifier_after(oc) ==
    IF advanced_selected /\ oc.kind \in {"label", "call_raises"} THEN "loaded"
    ELSE emotion_classifier

----------------------------------------------------------------------------
\* CaptionGenerator.generate, step by step

\* make_caption with a 1-based chunk_id.
make_caption_one_based(chunk, i, emotion) ==
    [ start          |-> chunk[1].start,
      end            |-> chunk[Len(chunk)].end,
      text           |-> Join(Field(chunk, "text")),
      emotion        |-> emotion,
      chunk_id       |-> i + 1,
      sentence_count |-> Len(chunk) ]

\* make_caption with the end of the chunk's first sentence.
make_caption_first_sentence_end(chunk, i, emotion) ==
    [ start          |-> chunk[1].start,
      end            |-> chunk[1].end,
      text           |-> Join(Field(chunk, "text")),
      emotion        |-> emotion,
      chunk_id       |-> i,
      sentence_count |-> Len(chunk) ]

\* The caption of chunk number i (0-based), lines 83-97.
make_caption(chunk, i, emotion) ==
    [ start          |-> chunk[1].start,
      end            |-> chunk[Len(chunk)].end,
      text           |-> Join(Field(chunk, "text")),
      emotion        |-> emotion,
      chunk_id       |-> i,
      sentence_count |-> Len(chunk) ]

\* The module globals and a CaptionGenerator as constructed.
GeneratorFresh ==
    /\ ADVANCED_MODE = FALSE
    /\ advanced_libs_checked = FALSE
    /\ embedding_model = "None"
    /\ emotion_classifier = "None"
    /\ pc = "idle"
    /\ asr_words = <<>>
    /\ use_advanced = FALSE
    /\ sentences = <<>>
    /\ semantic_chunks = <<>>
    /\ captions = <<>>
    /\ scoring = NoScoring
    /\ classified = NoClassification
    /\ embedding_loads = 0
    /\ classifier_loads = 0

GeneratorInit ==
    /\ Config \in Configs
    /\ libs \in LibStates
    /\ GeneratorFresh

NoDocument == [ none |-> TRUE ]
NoResult == [ status |-> "none" ]
NoAnswer == [ none |-> TRUE ]

TimelineOff ==
    /\ tpc = "off"
    /\ in_captions = <<>>
    /\ video_file = "None"
    /\ video_present = FALSE
    /\ project_data = NoDocument
    /\ load_result = NoResult
    /\ asset_exists = NoAnswer

\* main() is not running.
NoRender == [ none |-> TRUE ]

MainOff ==
    /\ main_pc = "off"
    /\ fs = {}
    /\ stages = <<>>
    /\ projects = <<>>
    /\ latest_project = "None"
    /\ render_args = NoRender

Init == GeneratorInit /\ TimelineOff /\ MainOff

\* generate(words) is called, for the first time or after an earlier call
\* on the same CaptionGenerator: lines 60-71.
GenerateCall(words) ==
    /\ pc = "idle"
    /\ asr_words' = words
    /\ captions' = <<>>
    /\ semantic_chunks' = <<>>
    /\ scoring' = NoScoring
    /\ classified' = NoClassification
    /\ IF words = <<>>
       THEN /\ pc' = "returned"
            /\ UNCHANGED << use_advanced, sentences, ADVANCED_MODE,
                            advanced_libs_checked >>
       ELSE /\ pc' = "chunk"
            /\ use_advanced' = check_advanced_libs
            /\ ADVANCED_MODE' = check_advanced_libs
            /\ advanced_libs_checked' = TRUE
            /\ sentences' = group_words_into_sentences(words)
    /\ UNCHANGED << Config, libs, embedding_model, emotion_classifier,
                    embedding_loads, classifier_loads >>
    /\ UNCHANGED << tlvars, mainvars >>

\* Step 2 of generate, lines 73-78, with the whole of _semantic_chunking.
ChunkSemantic(sc) ==
    /\ pc = "chunk"
    /\ use_advanced /\ Config.ENABLE_SEMANTIC_CHUNKING
    /\ sc.fail = "load" => embedding_model = "None"
    /\ semantic_chunks' = semantic_chunking(sentences, sc)
    /\ embedding_model' = embedding_model_after(sentences, sc)
    /\ embedding_loads' = IF embedding_constructed(sentences, sc)
                          THEN embedding_loads + 1 ELSE embedding_loads
    /\ scoring' = sc
    /\ pc' = "classify"
    /\ UNCHANGED << Config, libs, ADVANCED_MODE, advanced_libs_checked,
                    emotion_classifier, asr_words, use_advanced, sentences,
                    captions, classified, classifier_loads >>
    /\ UNCHANGED << tlvars, mainvars >>

ChunkBasic ==
    /\ pc = "chunk"
    /\ ~(use_advanced /\ Config.ENABLE_SEMANTIC_CHUNKING)
    /\ semantic_chunks' = singleton_chunks(sentences)
    /\ pc' = "classify"
    /\ UNCHANGED << Config, libs, ADVANCED_MODE, advanced_libs_checked,
                    embedding_model, emotion_classifier, asr_words,
                    use_advanced, sentences, captions, scoring, classified,
                    embedding_loads, classifier_loads >>
    /\ UNCHANGED << tlvars, mainvars >>

\* One iteration of the loop of step 3, lines 82-98; after the last one
\* generate returns captions (line 106).
Classify(oc) ==
    /\ pc = "classify"
    /\ Len(captions) < Len(semantic_chunks)
    /\ IF advanced_selected THEN oc.kind # "unused" ELSE oc.kind = "unused"
    /\ oc.kind = "load_raises" => emotion_classifier = "None"
    /\ LET i     == Len(captions)
           chunk == semantic_chunks[i + 1]
           text  == Join(Field(chunk, "text"))
       IN  captions' = Append(captions, make_caption(chunk, i, classify_emotion(text, oc)))
    /\ emotion_classifier' = emotion_classifier_after(oc)
    /\ classifier_loads' = IF classifier_constructed(oc)
                           THEN classifier_loads + 1 ELSE classifier_loads
    /\ classified' = oc
    /\ pc' = IF Len(captions') = Len(semantic_chunks) THEN "returned" ELSE "classify"
    /\ UNCHANGED << Config, libs, ADVANCED_MODE, advanced_libs_checked,
                    embedding_model, asr_words, use_advanced, sentences,
                    semantic_chunks, scoring, embedding_loads >>
    /\ UNCHANGED << tlvars, mainvars >>

\* The caller is done with the returned captions; the locals of the call
\* are gone, the module globals and the generator's models stay.
ReturnToCaller ==
    /\ pc = "returned"
    /\ pc' = "idle"
    /\ asr_words' = <<>>
    /\ use_advanced' = FALSE
    /\ sentences' = <<>>
    /\ semantic_chunks' = <<>>
    /\ captions' = <<>>
    /\ scoring' = NoScoring
    /\ classified' = NoClassification
    /\ UNCHANGED << Config, libs, ADVANCED_MODE, advanced_libs_checked,
                    embedding_model, emotion_classifier, embedding_loads,
                    classifier_loads >>
    /\ UNCHANGED << tlvars, mainvars >>

Next ==
    \/ \E words \in AsrInputs : GenerateCall(words)
    \/ ReturnToCaller
    \/ \E sc \in Scorings(Len(sentences)) : ChunkSemantic(sc)
    \/ ChunkBasic
    \/ \E oc \in Classifications \cup {NoClassification} : Classify(oc)

Spec == Init /\ [][Next]_vars

----------------------------------------------------------------------------
\* generate() on texts and classifier labels chosen for the emotion step

\* Most words of a text handed to the classifier.
MaxTextWords == 2

\* Words with a keyword in upper case, inside a longer word, of two
\* categories at once, and without any.
EmotionVocabulary ==
    { <<"A", "M", "A", "Z", "I", "N", "G">>, <<"w", "o", "w">>,
      <<"b", "a", "d", "g", "e">>, <<"M", "a", "d">>, <<"o", "k">>,
      <<"L", "a", "u", "g", "h">>, <<"t", "e", "a", "r", "s">>,
      <<"n", "o", "m", "a", "d", "s">> }

\* Word lists of 1..n words from t on, each word one tick long and one
\* tick (MAX_PAUSE_GAP, no more) after the word before: the segmenter keeps
\* them in one sentence, whose text is the words joined by spaces.
RECURSIVE EmotionWordLists(_, _)
EmotionWordLists(t, n) ==
    IF n = 0 THEN {}
    ELSE UNION { { << [word |-> v, start |-> t, end |-> t + 1] >> \o rest :
                     rest \in { <<>> } \cup EmotionWordLists(t + 2, n - 1) } :
                 v \in EmotionVocabulary }

EmotionInputs == EmotionWordLists(0, MaxTextWords)

\* Raw labels: every key of the table, one in upper case, and labels that
\* are not keys, among them the names of two output emotions.
EmotionLabels ==
    { kv[1] : kv \in emotion_mapping }
      \cup { <<"J", "O", "Y">>, <<"L", "A", "B", "E", "L", "_", "0">>,
             <<"l", "a", "u", "g", "h">>, <<"h", "a", "p", "p", "y">> }

EmotionClassifications ==
    [ kind : {"label"}, label : EmotionLabels ]
      \cup [ kind : {"load_raises", "call_raises"}, label : { <<>> } ]

\* Both features on (the advanced classifier is used) or both off (the
\* keyword method is used).
EmotionConfigs ==
    { [ ENABLE_SEMANTIC_CHUNKING |-> b, ENABLE_ADVANCED_EMOTIONS |-> b,
        MAX_SENTENCES_PER_CHUNK |-> 2, MAX_PAUSE_GAP |-> 1,
        MAX_WORDS_PER_SENTENCE |-> 2 ] : b \in BOOLEAN }

EmotionInit ==
    /\ GeneratorInit
    /\ Config \in EmotionConfigs
    /\ libs = "all"
    /\ TimelineOff
    /\ MainOff

NextEmotion ==
    \/ pc = "idle" /\ \E words \in EmotionInputs : GenerateCall(words)
    \/ ReturnToCaller
    \/ \E sc \in Scorings(Len(sentences)) : ChunkSemantic(sc)
    \/ ChunkBasic
    \/ \E oc \in EmotionClassifications \cup {NoClassification} : Classify(oc)

SpecEmotion == EmotionInit /\ [][NextEmotion]_vars

----------------------------------------------------------------------------
\* Timestamps of the project document (capcut_generator.py)

\* int(seconds * 1000000): the product, truncated toward zero.
ToMicros(t) ==
    IF t >= 0 THEN t \div TicksPerMicro ELSE -((-t) \div TicksPerMicro)

\* microseconds / 1000000.0
FromMicros(us) == us * TicksPerMicro

\* round(seconds * 1000000), Python's round: to the nearest integer, a tie
\* to the even one (t >= 0).
RoundMicros(t) ==
    LET q == t \div TicksPerMicro
        r == t % TicksPerMicro
    IN  IF 2 * r < TicksPerMicro THEN q
        ELSE IF 2 * r > TicksPerMicro THEN q + 1
        ELSE IF q % 2 = 0 THEN q ELSE q + 1

----------------------------------------------------------------------------
\* CapCutProjectGenerator._build_capcut_structure
\*
\* The ids are the uuid4 values in the order they are drawn, numbered from
\* 1; the styling fields of a text segment (font, color, position,
\* animations), canvas_config and extra_info are constants and are left out.

import_path(file) == [ parts |-> << "material", "import", file >>, sep |-> "/" ]

timerange(start, duration) == [ start |-> start, duration |-> duration ]

\* int(cap["start"] * 1000000), line 153
start_us(cap) == ToMicros(cap.start)

\* int((cap["end"] - cap["start"]) * 1000000), line 154
duration_us_cap(cap) == ToMicros(cap.end - cap.start)

\* int(captions[-1]["end"] * 1000000) if captions else 0, line 91
duration_us(caps) == IF caps # <<>> THEN ToMicros(caps[Len(caps)].end) ELSE 0

text_material(cap, id) == [ id |-> id, content |-> cap.text, type |-> "text" ]

\* A text track whose segment refers to itself, not to its text material.
text_track_self_reference(cap, text_id, seg_id) ==
    [ type |-> "text",
      segments |-> << [ id               |-> seg_id,
                        category         |-> "text",
                        material_id      |-> seg_id,
                        target_timerange |-> timerange(start_us(cap), duration_us_cap(cap)),
                        content          |-> cap.text,
                        metadata         |-> [ emotion  |-> cap.emotion,
                                               chunk_id |-> cap.chunk_id ] ] >> ]

\* The text track of one caption, lines 164-194.
text_track(cap, text_id, seg_id) ==
    [ type |-> "text",
      segments |-> << [ id               |-> seg_id,
                        category         |-> "text",
                        material_id      |-> text_id,
                        target_timerange |-> timerange(start_us(cap), duration_us_cap(cap)),
                        content          |-> cap.text,
                        metadata         |-> [ emotion  |-> cap.emotion,
                                               chunk_id |-> cap.chunk_id ] ] >> ]

\* A media track whose type was copied from the video track.
media_track_typed_video(kind, seg_id, material_id, dur) ==
    [ type |-> "video",
      segments |-> << [ id               |-> seg_id,
                        category         |-> "video",
                        material_id      |-> material_id,
                        target_timerange |-> timerange(0, dur),
                        source_timerange |-> timerange(0, dur) ] >> ]

\* The video track of lines 113-125 and the audio track of lines 137-148.
media_track(kind, seg_id, material_id, dur) ==
    [ type |-> kind,
      segments |-> << [ id               |-> seg_id,
                        category         |-> kind,
                        material_id      |-> material_id,
                        target_timerange |-> timerange(0, dur),
                        source_timerange |-> timerange(0, dur) ] >> ]

build_capcut_structure(video, audio, caps) ==
    LET dur  == duration_us(caps)
        nv   == IF video # "None" THEN 2 ELSE 0
        n    == Len(caps)
    IN  [ draft_name |-> "title",
          duration   |-> dur,
          materials  |->
            [ audios |-> << [ id |-> nv + 1, path |-> import_path(audio),
                              type |-> "audio", duration |-> dur ] >>,
              videos |-> IF video # "None"
                         THEN << [ id |-> 1, path |-> import_path(video),
                                   type |-> "video", duration |-> dur ] >>
                         ELSE <<>>,
              texts  |-> [ k \in 1..n |-> text_material(caps[k], nv + 2 * k + 1) ] ],
          tracks     |->
            (IF video # "None" THEN << media_track("video", 2, 1, dur) >> ELSE <<>>)
              \o << media_track("audio", nv + 2, nv + 1, dur) >>
              \o [ k \in 1..n |-> text_track(caps[k], nv + 2 * k + 1, nv + 2 * k + 2) ] ]

\* video_basename of create_project, lines 51-55
video_basename == IF video_file # "None" /\ video_present THEN video_file ELSE "None"

----------------------------------------------------------------------------
\* CapCutProjectGenerator.load_latest_project, from the parsed document on

\* A document as a hand-written legacy file holds it: the same captions as
\* {start, duration, text, emotion} entries.
legacy_document(video, audio, caps) ==
    [ project_name |-> "title",
      audio    |-> audio,
      video    |-> video,
      captions |-> [ k \in 1..Len(caps) |->
                       [ start    |-> caps[k].start,
                         duration |-> caps[k].end - caps[k].start,
                         text     |-> caps[k].text,
                         emotion  |-> caps[k].emotion ] ] ]

\* One caption per segment of a text track, lines 262-270
segment_caption(segment) ==
    LET start_s    == FromMicros(segment.target_timerange.start)
        duration_s == FromMicros(segment.target_timerange.duration)
    IN  [ start   |-> start_s,
          end     |-> start_s + duration_s,
          text    |-> IF "content" \in DOMAIN segment THEN segment.content ELSE <<>>,
          emotion |-> IF "metadata" \in DOMAIN segment
                         /\ "emotion" \in DOMAIN segment.metadata
                      THEN segment.metadata.emotion ELSE "neutral" ]

RECURSIVE track_captions(_)
track_captions(tracks) ==
    IF tracks = <<>> THEN <<>>
    ELSE (IF tracks[1].type = "text"
          THEN [ k \in 1..Len(tracks[1].segments) |-> segment_caption(tracks[1].segments[k]) ]
          ELSE <<>>)
         \o track_captions(Tail(tracks))

\* list.sort(key=lambda x: x["start"]): stable
RECURSIVE insert_by_start(_, _)
insert_by_start(x, sorted) ==
    IF sorted = <<>> THEN << x >>
    ELSE IF sorted[Len(sorted)].start <= x.start THEN Append(sorted, x)
    ELSE Append(insert_by_start(x, SubSeq(sorted, 1, Len(sorted) - 1)),
                sorted[Len(sorted)])

RECURSIVE sort_by_start(_)
sort_by_start(caps) ==
    IF caps = <<>> THEN <<>>
    ELSE insert_by_start(caps[Len(caps)], sort_by_start(SubSeq(caps, 1, Len(caps) - 1)))

legacy_caption(cap) ==
    [ start   |-> cap.start,
      end     |-> cap.start + cap.duration,
      text    |-> cap.text,
      emotion |-> IF "emotion" \in DOMAIN cap THEN cap.emotion ELSE "neutral" ]

\* path.replace("/", "\\") joined to the project folder
resolved(path) == [ parts |-> path.parts, sep |-> "\\" ]

\* The value None of a path variable, and a path variable never assigned.
NonePath == [ none |-> TRUE ]
UnboundPath == [ unbound |-> TRUE ]

\* os.path.join(project_path, ""): the project folder itself, which holds
\* the document that was just read.
ProjectDir == [ parts |-> <<>>, sep |-> "/" ]

\* project_data.get("materials", {}).get(kind, []), lines 279 and 284
materials_of(doc, kind) ==
    IF "materials" \in DOMAIN doc /\ kind \in DOMAIN doc.materials
    THEN doc.materials[kind] ELSE <<>>

\* The path of the first material of a list, None when the list is empty
\* (lines 276-287).
first_material_path(materials) ==
    IF materials = <<>> THEN NonePath
    ELSE IF "path" \in DOMAIN materials[1] THEN resolved(materials[1].path)
    ELSE ProjectDir

\* Lines 299-303: the two paths of a legacy document.
legacy_audio_path(doc) ==
    IF "audio" \in DOMAIN doc THEN [ parts |-> << doc.audio >>, sep |-> "/" ]
    ELSE ProjectDir

legacy_video_path(doc) ==
    IF "video" \in DOMAIN doc /\ doc.video # "None"
    THEN [ parts |-> << doc.video >>, sep |-> "/" ] ELSE NonePath

\* A loader that leaves the captions of a nested document in track order.
nested_captions_track_order(doc) == track_captions(doc.tracks)

\* The captions of a nested document, lines 258-273, and of a legacy
\* document, lines 291-297.
nested_captions(doc) == sort_by_start(track_captions(doc.tracks))

legacy_captions(doc) ==
    [ k \in 1..Len(doc.captions) |-> legacy_caption(doc.captions[k]) ]

\* Lines 255-303: the captions and the two paths.
parsed(doc) ==
    IF "tracks" \in DOMAIN doc
    THEN [ captions   |-> nested_captions(doc),
           audio_path |-> first_material_path(materials_of(doc, "audios")),
           video_path |-> first_material_path(materials_of(doc, "videos")) ]
    ELSE IF "captions" \in DOMAIN doc
    THEN [ captions   |-> legacy_captions(doc),
           audio_path |-> legacy_audio_path(doc),
           video_path |-> legacy_video_path(doc) ]
    ELSE [ captions |-> <<>>, audio_path |-> UnboundPath, video_path |-> UnboundPath ]

\* Lines 305-320: audio_exists and video_exists are what os.path.exists
\* answers for a resolved file path; the project folder exists.
load_project(doc, audio_exists, video_exists) ==
    LET p == parsed(doc)
    IN  IF p.audio_path = UnboundPath
        THEN [ status |-> "raises", error |-> "UnboundLocalError" ]
        ELSE IF p.audio_path = NonePath
        THEN [ status |-> "raises", error |-> "TypeError" ]
        ELSE IF p.audio_path # ProjectDir /\ ~audio_exists
        THEN [ status |-> "raises", error |-> "Audio file not found" ]
        ELSE [ status     |-> "ok",
               audio_path |-> p.audio_path,
               video_path |-> IF p.video_path \notin {NonePath, ProjectDir} /\ ~video_exists
                              THEN NonePath ELSE p.video_path,
               captions   |-> p.captions ]

----------------------------------------------------------------------------
\* The project round trip

\* What a caption says: its text, emotion and number of sentences.
Payloads ==
    { [ text |-> <<"o", "k">>, emotion |-> "neutral", sentence_count |-> 1 ],
      [ text |-> <<"H", "a", "p", "p", "y", " ", "o", "k">>, emotion |-> "happy",
        sentence_count |-> 2 ] }

\* Caption lists of at most n captions with non-decreasing start from t on,
\* as generate returns them; i is the chunk_id of the first.
RECURSIVE CaptionLists(_, _, _)
CaptionLists(t, n, i) ==
    IF n = 0 THEN { <<>> }
    ELSE { <<>> } \cup
         UNION { { << [ start |-> st, end |-> st + d, text |-> pl.text,
                        emotion |-> pl.emotion, chunk_id |-> i,
                        sentence_count |-> pl.sentence_count ] >> \o rest :
                     rest \in CaptionLists(st, n - 1, i + 1) } :
                 << st, d, pl >> \in (t..MaxTick) \X {1, 2} \X Payloads }

CaptionInputs == CaptionLists(0, MaxCaptions, 0)

TimelineConfig ==
    [ ENABLE_SEMANTIC_CHUNKING |-> TRUE, ENABLE_ADVANCED_EMOTIONS |-> TRUE,
      MAX_SENTENCES_PER_CHUNK |-> 2, MAX_PAUSE_GAP |-> 1, MAX_WORDS_PER_SENTENCE |-> 2 ]

TimelineInit ==
    /\ GeneratorInit
    /\ Config = TimelineConfig
    /\ libs = "all"
    /\ tpc = "idle"
    /\ in_captions \in CaptionInputs
    /\ video_file \in {"None", "video.mp4"}
    /\ video_present \in BOOLEAN
    /\ video_file = "None" => ~video_present
    /\ project_data = NoDocument
    /\ load_result = NoResult
    /\ asset_exists = NoAnswer
    /\ MainOff

\* create_project(video_file, audio_file, captions, title)
CreateProject ==
    /\ tpc = "idle"
    /\ project_data' = build_capcut_structure(video_basename, "audio.mp3", in_captions)
    /\ tpc' = "written"
    /\ UNCHANGED << genvars, mainvars, in_captions, video_file, video_present,
                    load_result, asset_exists >>

\* A legacy document with the same content is in the latest project folder.
PlaceLegacyDocument ==
    /\ tpc = "idle"
    /\ project_data' = legacy_document(video_basename, "audio.mp3", in_captions)
    /\ tpc' = "written"
    /\ UNCHANGED << genvars, mainvars, in_captions, video_file, video_present,
                    load_result, asset_exists >>

\* load_latest_project()
LoadLatestProject(audio_exists, video_exists) ==
    /\ tpc = "written"
    /\ load_result' = load_project(project_data, audio_exists, video_exists)
    /\ asset_exists' = [ audio |-> audio_exists, video |-> video_exists ]
    /\ tpc' = "loaded"
    /\ UNCHANGED << genvars, mainvars, in_captions, video_file, video_present,
                    project_data >>

NextTimeline ==
    \/ CreateProject
    \/ PlaceLegacyDocument
    \/ \E a, v \in BOOLEAN : LoadLatestProject(a, v)

SpecTimeline == TimelineInit /\ [][NextTimeline]_vars

----------------------------------------------------------------------------
\* The loader on documents that were not written by create_project

\* Most segments of a text track and most captions of a legacy document.
MaxSegments == 2
\* Latest start of a segment (microseconds) or of a legacy caption (ticks).
MaxStart == 2

StartLists == UNION { [ 1..m -> 0..MaxStart ] : m \in 1..MaxSegments }

\* The k-th segment of a text track; only the first carries metadata.
hand_segment(st, k) ==
    IF k = 1
    THEN [ target_timerange |-> timerange(st, 1), content |-> << "a" >>,
           metadata |-> [ emotion |-> "happy" ] ]
    ELSE [ target_timerange |-> timerange(st, 1), content |-> << "b" >> ]

HandTextTracks ==
    { [ type |-> "text",
        segments |-> [ k \in 1..Len(sl) |-> hand_segment(sl[k], k) ] ] :
      sl \in StartLists }

HandAudioTrack == media_track("audio", 2, 1, MaxStart + 1)

HandSingleTracks == { t \in HandTextTracks : Len(t.segments) = 1 }

\* One text track, or a text track followed by a one-segment text track, in
\* any order of start, with and without an audio track around them.
HandTrackLists ==
    { <<>> }
      \cup { << t >> : t \in HandTextTracks }
      \cup { << HandAudioTrack, t >> : t \in HandTextTracks }
      \cup { << t[1], t[2] >> : t \in HandTextTracks \X HandSingleTracks }
      \cup { << t[1], HandAudioTrack, t[2] >> : t \in HandTextTracks \X HandSingleTracks }

HandMaterials ==
    [ audios : { <<>>, << [ id |-> 1, path |-> import_path("audio.mp3"), type |-> "audio" ] >> },
      videos : { <<>>, << [ id |-> 3, path |-> import_path("video.mp4"), type |-> "video" ] >> } ]

NestedDocuments ==
    { [ draft_name |-> "title", materials |-> m, tracks |-> t ] :
      << m, t >> \in HandMaterials \X HandTrackLists }

HandCaptionLists ==
    { <<>> } \cup
    { [ k \in 1..Len(sl) |->
          IF k = 1
          THEN [ start |-> sl[k], duration |-> 1, text |-> << "a" >>, emotion |-> "happy" ]
          ELSE [ start |-> sl[k], duration |-> 1, text |-> << "b" >> ] ] :
      sl \in StartLists }

\* Legacy documents with and without the audio and video keys.
LegacyDocuments ==
    { [ project_name |-> "title", captions |-> c ] : c \in HandCaptionLists }
      \cup { [ project_name |-> "title", captions |-> c, audio |-> "audio.mp3" ] :
              c \in HandCaptionLists }
      \cup { [ project_name |-> "title", captions |-> c, audio |-> "audio.mp3",
                video |-> v ] :
              << c, v >> \in HandCaptionLists \X {"None", "video.mp4"} }

\* Documents with neither key, and with both.
ForeignDocuments ==
    { [ draft_name |-> "title" ],
      [ project_name |-> "title", audio |-> "audio.mp3" ] }

BothDocuments ==
    { [ draft_name |-> "title", materials |-> m, tracks |-> << t >>,
        captions |-> << [ start |-> 0, duration |-> 1, text |-> << "b" >> ] >> ] :
      << m, t >> \in HandMaterials \X HandTextTracks }

HandDocuments ==
    NestedDocuments \cup LegacyDocuments \cup ForeignDocuments \cup BothDocuments

LoaderInit ==
    /\ GeneratorInit
    /\ Config = TimelineConfig
    /\ libs = "all"
    /\ tpc = "idle"
    /\ in_captions = <<>>
    /\ video_file = "None"
    /\ video_present = FALSE
    /\ project_data = NoDocument
    /\ load_result = NoResult
    /\ asset_exists = NoAnswer
    /\ MainOff

\* draft_content.json of the latest project folder holds doc.
PlaceDocument(doc) ==
    /\ tpc = "idle"
    /\ project_data' = doc
    /\ tpc' = "written"
    /\ UNCHANGED << genvars, mainvars, in_captions, video_file, video_present,
                    load_result, asset_exists >>

NextLoader ==
    \/ tpc = "idle" /\ \E doc \in HandDocuments : PlaceDocument(doc)
    \/ \E a, v \in BOOLEAN : LoadLatestProject(a, v)

SpecLoader == LoaderInit /\ [][NextLoader]_vars

----------------------------------------------------------------------------
\* main() and VideoPipeline.process (main.py), Config.ensure_directories and
\* Config.validate (config.py)

\* The settings main() runs with: thresholds as the environment gives them
\* (similarity in hundredths, the pause in ticks), among them values no
\* stage can work with, and the input source, empty or not.
MainConfigs ==
    [ ENABLE_SEMANTIC_CHUNKING : {TRUE},
      ENABLE_ADVANCED_EMOTIONS : {TRUE},
      SIMILARITY_THRESHOLD     : {70, 150},
      MAX_SENTENCES_PER_CHUNK  : {0, 5},
      MAX_PAUSE_GAP            : {-1, 1},
      MAX_WORDS_PER_SENTENCE   : {0, 15},
      INPUT_SOURCE             : {"", "input.mp4"} ]

\* The folders ensure_directories creates.
CreatedFolders == {"OUTPUT_FOLDER", "CAPCUT_PROJECTS_FOLDER", "ICONS_FOLDER"}

\* The error lines Config.validate collects, lines 76-85.
validate_errors(cfg, existing) ==
    (IF cfg.INPUT_SOURCE = "" THEN {"INPUT_SOURCE is required"} ELSE {})
      \cup (IF "VOSK_MODEL_PATH" \notin existing THEN {"Vosk model not found"} ELSE {})
      \cup (IF "ICONS_FOLDER" \notin existing THEN {"Icons folder not found"} ELSE {})

\* The positions of VideoPipeline.process, as logger.step numbers them; in
\* step 6 the project is loaded and then rendered.
PipelineSteps ==
    {"step1", "step2", "step3", "step4", "step5", "step6", "step6_render"}

\* The generator's variables that process() leaves alone outside step 4.
generator_state ==
    << Config, libs, ADVANCED_MODE, advanced_libs_checked, embedding_model,
       emotion_classifier, pc, use_advanced, sentences, semantic_chunks,
       scoring, classified, embedding_loads, classifier_loads >>

\* What the recognizer returns in step 3: nothing, or one or two words.
MainWordInputs == { w \in AsrInputs : Len(w) <= 2 }

\* generate(words) when the advanced libraries are not used: sentences,
\* one chunk per sentence, the keyword method.
generate_keyword_path(words) ==
    LET chunks == singleton_chunks(group_words_into_sentences(words))
    IN  [ k \in 1..Len(chunks) |->
            make_caption(chunks[k], k - 1,
                         classify_emotion_basic(Join(Field(chunks[k], "text")))) ]

\* A project folder an earlier run left in CAPCUT_PROJECTS_FOLDER.
OldDocument ==
    build_capcut_structure("None", "old.mp3",
        << [ start |-> 0, end |-> 2, text |-> <<"o", "l", "d">>, emotion |-> "neutral",
             chunk_id |-> 0, sentence_count |-> 1 ] >>)

\* Its modification time, in clock readings of which step 5 of this run
\* sees the reading 1: before, the same reading, after.
OldProjects == { [ name |-> "OLD", mtime |-> m, doc |-> OldDocument ] : m \in {0, 1, 2} }

\* project_folders.sort(key=getmtime, reverse=True)[0], lines 239-244: the
\* sort is stable, so among the folders of the latest modification time
\* the one os.listdir lists first.
latest_of(folders) ==
    folders[CHOOSE k \in 1..Len(folders) :
                /\ \A j \in 1..Len(folders) : folders[j].mtime <= folders[k].mtime
                /\ \A j \in 1..(k - 1) : folders[j].mtime < folders[k].mtime]

MainInit ==
    /\ Config \in MainConfigs
    /\ libs = "missing"
    /\ GeneratorFresh
    /\ TimelineOff
    /\ main_pc = "main"
    /\ fs \in SUBSET {"VOSK_MODEL_PATH", "ICONS_FOLDER"}
    /\ stages = <<>>
    /\ projects \in { <<>> } \cup { << p >> : p \in OldProjects }
    /\ latest_project = "None"
    /\ render_args = NoRender

\* Config.ensure_directories(), main.py line 114
EnsureDirectories ==
    /\ main_pc = "main"
    /\ fs' = fs \cup CreatedFolders
    /\ main_pc' = "validate"
    /\ UNCHANGED << genvars, tlvars, stages, projects, latest_project, render_args >>

\* Config.validate(), main.py line 117: a ValueError ends main() in the
\* handler of lines 126-128.
Validate ==
    /\ main_pc = "validate"
    /\ main_pc' = IF validate_errors(Config, fs) # {} THEN "exit_1" ELSE "process"
    /\ UNCHANGED << genvars, tlvars, fs, stages, projects, latest_project, render_args >>

\* VideoPipeline().process() up to its first step, main.py lines 33-40.
ProcessStart ==
    /\ main_pc = "process"
    /\ main_pc' = IF Config.INPUT_SOURCE = "" THEN "exit_1" ELSE "step1"
    /\ UNCHANGED << genvars, tlvars, fs, stages, projects, latest_project, render_args >>

\* Step 1, lines 43-44: process_input returns the video file (or None) and
\* the audio file, or raises; an exception of any step is re-raised at line
\* 96 and ends main() at lines 126-128.
ProcessInput(video, ok) ==
    /\ main_pc = "step1"
    /\ stages' = Append(stages, "input")
    /\ IF ok
       THEN /\ video_file' = video
            /\ video_present' = (video # "None")
            /\ main_pc' = "step2"
       ELSE /\ main_pc' = "exit_1"
            /\ UNCHANGED << video_file, video_present >>
    /\ UNCHANGED << genvars, fs, projects, latest_project, render_args, tpc,
                    in_captions, project_data, load_result, asset_exists >>

\* Step 2, lines 47-49
PrepareAudio(ok) ==
    /\ main_pc = "step2"
    /\ stages' = Append(stages, "audio")
    /\ main_pc' = IF ok THEN "step3" ELSE "exit_1"
    /\ UNCHANGED << genvars, tlvars, fs, projects, latest_project, render_args >>

\* Step 3, lines 52-56: no word ends the run.
Transcribe(words) ==
    /\ main_pc = "step3"
    /\ stages' = Append(stages, "transcription")
    /\ asr_words' = words
    /\ main_pc' = IF words = <<>> THEN "exit_1" ELSE "step4"
    /\ UNCHANGED << generator_state, captions, tlvars, fs, projects, latest_project,
                    render_args >>

\* Step 4, lines 59-63: generate() as a whole, on the keyword path; no
\* caption ends the run.
GenerateCaptions ==
    /\ main_pc = "step4"
    /\ ~check_advanced_libs
    /\ stages' = Append(stages, "captions")
    /\ captions' = generate_keyword_path(asr_words)
    /\ ADVANCED_MODE' = check_advanced_libs
    /\ advanced_libs_checked' = TRUE
    /\ main_pc' = IF captions' = <<>> THEN "exit_1" ELSE "step5"
    /\ UNCHANGED << Config, libs, embedding_model, emotion_classifier, pc, asr_words,
                    use_advanced, sentences, semantic_chunks, scoring, classified,
                    embedding_loads, classifier_loads >>
    /\ UNCHANGED << tlvars, fs, projects, latest_project, render_args >>

\* Step 5, lines 66-69: create_project writes a new folder, which os.listdir
\* lists before the others or after them.
CreateProjectStep(listed_first) ==
    /\ main_pc = "step5"
    /\ stages' = Append(stages, "project")
    /\ in_captions' = captions
    /\ LET new == [ name  |-> "NEW",
                    mtime |-> 1,
                    doc   |-> build_capcut_structure(video_basename, "audio.mp3", captions) ]
       IN  projects' = IF listed_first THEN << new >> \o projects
                       ELSE Append(projects, new)
    /\ tpc' = "written"
    /\ main_pc' = "step6"
    /\ UNCHANGED << genvars, fs, latest_project, render_args, video_file,
                    video_present, project_data, load_result, asset_exists >>

\* Step 6, line 76: load_latest_project() on the folder of the latest
\* modification time.
LoadProjectStep(audio_exists, video_exists) ==
    /\ main_pc = "step6"
    /\ stages' = Append(stages, "load")
    /\ latest_project' = latest_of(projects).name
    /\ project_data' = latest_of(projects).doc
    /\ load_result' = load_project(latest_of(projects).doc, audio_exists, video_exists)
    /\ asset_exists' = [ audio |-> audio_exists, video |-> video_exists ]
    /\ tpc' = "loaded"
    /\ main_pc' = IF load_result'.status = "raises" THEN "exit_1" ELSE "step6_render"
    /\ UNCHANGED << genvars, fs, projects, render_args, in_captions, video_file,
                    video_present >>

\* Step 6, line 78: VideoRenderer.render(audio_path, video_path,
\* project_captions, output_path), then lines 80-91.
Render(ok) ==
    /\ main_pc = "step6_render"
    /\ stages' = Append(stages, "render")
    /\ render_args' = [ project    |-> latest_project,
                        audio_path |-> load_result.audio_path,
                        video_path |-> load_result.video_path,
                        captions   |-> load_result.captions ]
    /\ main_pc' = IF ok THEN "done" ELSE "exit_1"
    /\ UNCHANGED << genvars, tlvars, fs, projects, latest_project >>

NextMain ==
    \/ EnsureDirectories
    \/ Validate
    \/ ProcessStart
    \/ \E video \in {"None", "video.mp4"}, ok \in BOOLEAN : ProcessInput(video, ok)
    \/ \E ok \in BOOLEAN : PrepareAudio(ok)
    \/ main_pc = "step3" /\ \E words \in MainWordInputs : Transcribe(words)
    \/ GenerateCaptions
    \/ \E listed_first \in BOOLEAN : CreateProjectStep(listed_first)
    \/ \E a, v \in BOOLEAN : LoadProjectStep(a, v)
    \/ \E ok \in BOOLEAN : Render(ok)

SpecMain == MainInit /\ [][NextMain]_vars

----------------------------------------------------------------------------
\* Properties of the caption generator (checked under Spec)

Emotions == {"neutral", "happy", "sad", "angry", "surprised"}

\* The segmenter has run in the current call.
Segmented == pc \in {"chunk", "classify", "returned"} /\ asr_words # <<>>

\* The chunking step of the current call is over.
Chunked == pc \in {"classify", "returned"} /\ asr_words # <<>>

\* The caption appended last, by the classification recorded in classified.
LastCaption == captions[Len(captions)]

\* C1: concatenating the words of the sentences the segmenter returns, in
\* order, gives the input word list: nothing is dropped, duplicated or
\* reordered, and the empty word list gives no sentence.
C1_SentencesPartitionWords ==
    /\ group_words_into_sentences(<<>>) = <<>>
    /\ Segmented => Flatten(Field(sentences, "words")) = asr_words

C1_Witness ==
    /\ pc = "chunk"
    /\ Len(asr_words) = 3
    /\ Len(sentences) = 2

\* C2: no sentence the segmenter returns holds more than
\* max_words_per_sentence words.
C2_AtMostMaxWords ==
    Segmented =>
        \A k \in 1..Len(sentences) :
            Len(sentences[k].words) <= Config.MAX_WORDS_PER_SENTENCE

\* The advanced classifier failed for the caption appended last: it was
\* not used, it raised, or it returned a label that is not in the table.
UnknownLabel(oc) ==
    oc.kind = "label" /\ ~(\E kv \in emotion_mapping : kv[1] = Lower(oc.label))

\* C5 as stated: whenever the advanced classifier is unavailable, raises or
\* returns a label that is not in the mapping table, the caption's emotion
\* is the keyword method's result on the caption's text.
C5_EveryFailureFallsBack ==
    (pc \in {"classify", "returned"} /\ captions # <<>>
       /\ (classified.kind \in {"unused", "load_raises", "call_raises"}
             \/ UnknownLabel(classified)))
    => LastCaption.emotion = classify_emotion_basic(LastCaption.text)

\* C5 as amended: classification always yields an emotion; when the
\* advanced classifier is unavailable or raises, the emotion is the keyword
\* method's result on the text; a label that is not in the table gives
\* neutral.
C5_FailureFallsBackUnknownIsNeutral ==
    (pc \in {"classify", "returned"} /\ captions # <<>>) =>
        /\ LastCaption.emotion \in Emotions
        /\ classified.kind \in {"unused", "load_raises", "call_raises"}
             => LastCaption.emotion = classify_emotion_basic(LastCaption.text)
        /\ UnknownLabel(classified) => LastCaption.emotion = "neutral"

C5_Witness ==
    /\ pc \in {"classify", "returned"}
    /\ captions # <<>>
    /\ classified.kind = "call_raises"
    /\ LastCaption.emotion = "happy"

\* C6: with the libraries available, the advanced classifier is used for a
\* chunk whenever advanced emotions are enabled, and semantic chunking is
\* used whenever chunking is enabled, each whatever the other setting.
C6_CapabilitiesIndependent ==
    /\ (pc \in {"classify", "returned"} /\ captions # <<>>
          /\ Config.ENABLE_ADVANCED_EMOTIONS /\ libs = "all")
       => classified.kind # "unused"
    /\ (Chunked /\ Config.ENABLE_SEMANTIC_CHUNKING /\ libs = "all")
       => scoring.fail # "unused"

\* C7: with at most one sentence, chunking disabled, or the scorer
\* unavailable or failing, the chunker returns one chunk per sentence, each
\* holding that one sentence, and the chunks concatenated are the sentences.
C7_FallbackIsSingletons ==
    (Chunked
       /\ (\/ Len(sentences) <= 1
           \/ ~Config.ENABLE_SEMANTIC_CHUNKING
           \/ libs # "all"
           \/ scoring.fail \in {"load", "encode", "pair"}))
    => /\ Len(semantic_chunks) = Len(sentences)
       /\ \A k \in 1..Len(semantic_chunks) : Len(semantic_chunks[k]) = 1
       /\ Flatten(semantic_chunks) = sentences

C7_Witness ==
    /\ pc = "classify"
    /\ Config.ENABLE_SEMANTIC_CHUNKING
    /\ libs = "missing"
    /\ Len(sentences) = 3
    /\ Len(semantic_chunks) = 3

\* C8: an exception anywhere in the scoring (model load, embedding, any
\* pairwise similarity) makes the call return one singleton chunk per
\* sentence of the whole input; no chunk built before it is returned.
C8_ExceptionGivesWholeFallback ==
    (Chunked /\ scoring.fail \in {"load", "encode", "pair"})
    => /\ Len(semantic_chunks) = Len(sentences)
       /\ \A k \in 1..Len(sentences) : semantic_chunks[k] = << sentences[k] >>

\* The third similarity call raised after the first chunk was closed.
C8_Witness ==
    /\ pc = "classify"
    /\ scoring.fail = "pair"
    /\ scoring.at = 3
    /\ scoring.sims = << 70 >>
    /\ Len(semantic_chunks) = 3

\* C9: no chunk the chunker returns holds more than
\* max_sentences_per_chunk sentences.
C9_AtMostMaxSentences ==
    Chunked =>
        \A k \in 1..Len(semantic_chunks) :
            Len(semantic_chunks[k]) <= Config.MAX_SENTENCES_PER_CHUNK

\* C10: generate returns the empty list on empty input, and on a non-empty
\* word list at least one caption, with chunk_id 0, 1, ..., n-1 in list
\* order and non-decreasing start.
C10_CaptionList ==
    pc = "returned" =>
        IF asr_words = <<>> THEN captions = <<>>
        ELSE /\ Len(captions) >= 1
             /\ \A k \in 1..Len(captions) : captions[k].chunk_id = k - 1
             /\ \A k \in 1..(Len(captions) - 1) :
                    captions[k].start <= captions[k + 1].start

C10_Witness ==
    /\ pc = "returned"
    /\ Len(captions) = 3
    /\ captions[3].chunk_id = 2

----------------------------------------------------------------------------
\* Properties of the project round trip (checked under SpecTimeline)

\* The segments of the text tracks of a nested document, in track order.
RECURSIVE text_segments(_)
text_segments(tracks) ==
    IF tracks = <<>> THEN <<>>
    ELSE (IF tracks[1].type = "text" THEN tracks[1].segments ELSE <<>>)
         \o text_segments(Tail(tracks))

\* C3: loading what was written for a caption list with non-decreasing
\* start, as a nested document or as the equivalent legacy document, gives
\* a caption list of the same length that agrees with the input on start,
\* end, text and emotion.
C3_RoundTrip ==
    (tpc = "loaded" /\ load_result.status = "ok") =>
        /\ Len(load_result.captions) = Len(in_captions)
        /\ \A k \in 1..Len(in_captions) :
             /\ load_result.captions[k].start = in_captions[k].start
             /\ load_result.captions[k].end = in_captions[k].end
             /\ load_result.captions[k].text = in_captions[k].text
             /\ load_result.captions[k].emotion = in_captions[k].emotion

\* C4: every timestamp the serializer writes (the document duration, each
\* text segment's start and duration) is round(seconds * 1000000).
C4_TimestampsRounded ==
    (tpc = "written" /\ "tracks" \in DOMAIN project_data) =>
        LET segs == text_segments(project_data.tracks)
        IN  /\ project_data.duration =
                 (IF in_captions # <<>>
                  THEN RoundMicros(in_captions[Len(in_captions)].end) ELSE 0)
            /\ Len(segs) = Len(in_captions)
            /\ \A k \in 1..Len(in_captions) :
                 /\ segs[k].target_timerange.start = RoundMicros(in_captions[k].start)
                 /\ segs[k].target_timerange.duration =
                      RoundMicros(in_captions[k].end - in_captions[k].start)

----------------------------------------------------------------------------
\* Properties of the loader (checked under SpecLoader)

Loaded == tpc = "loaded"

HasTracks == "tracks" \in DOMAIN project_data
HasCaptions == "captions" \in DOMAIN project_data

\* C11: the loader takes the nested path for a document with a tracks key
\* and the legacy path for one with a captions key and no tracks key; a
\* document with neither key makes the load fail with a MalformedDocument
\* error, never with another error and never with a result.
C11_SchemaSelectedOrMalformed ==
    Loaded =>
        /\ (HasTracks /\ load_result.status = "ok")
             => load_result.captions = nested_captions(project_data)
        /\ (~HasTracks /\ HasCaptions /\ load_result.status = "ok")
             => load_result.captions = legacy_captions(project_data)
        /\ (~HasTracks /\ ~HasCaptions)
             => /\ load_result.status = "raises"
                /\ load_result.error = "MalformedDocument"

\* The document names an audio file: the first audio material of a nested
\* document has a path, a legacy document has an audio key.
AudioNamed ==
    IF HasTracks
    THEN /\ materials_of(project_data, "audios") # <<>>
         /\ "path" \in DOMAIN materials_of(project_data, "audios")[1]
    ELSE HasCaptions /\ "audio" \in DOMAIN project_data

\* C12: when the resolved audio path does not exist, or no audio path could
\* be resolved, the load fails with the missing-audio error and returns
\* nothing; when the audio exists and a video path was resolved that does
\* not exist, the load succeeds with the video path None and the captions
\* and the audio path as resolved.
C12_MissingAudioFailsMissingVideoDegrades ==
    (Loaded /\ (HasTracks \/ HasCaptions)) =>
        LET p == parsed(project_data)
        IN  /\ (~AudioNamed \/ ~asset_exists.audio)
                 => /\ load_result.status = "raises"
                    /\ load_result.error = "Audio file not found"
            /\ (AudioNamed /\ asset_exists.audio
                  /\ p.video_path # NonePath /\ ~asset_exists.video)
                 => /\ load_result.status = "ok"
                    /\ load_result.video_path = NonePath
                    /\ load_result.captions = p.captions
                    /\ load_result.audio_path = p.audio_path

\* C13: the captions loaded from a nested document are in non-decreasing
\* order of start, one per text segment, whatever the order of the text
\* tracks and of their segments; the captions loaded from a legacy document
\* are the entries of its captions array in array order, sorted or not.
C13_NestedSortedLegacyInOrder ==
    (Loaded /\ load_result.status = "ok") =>
        LET caps == load_result.captions
        IN  /\ HasTracks =>
                 /\ Len(caps) = Len(text_segments(project_data.tracks))
                 /\ \A k \in 1..(Len(caps) - 1) : caps[k].start <= caps[k + 1].start
            /\ (~HasTracks /\ HasCaptions) =>
                 /\ Len(caps) = Len(project_data.captions)
                 /\ \A k \in 1..Len(caps) :
                      /\ caps[k].start = project_data.captions[k].start
                      /\ caps[k].text = project_data.captions[k].text

\* A nested document whose second text track starts before its first.
C13_Witness ==
    /\ Loaded
    /\ load_result.status = "ok"
    /\ HasTracks
    /\ Len(project_data.tracks) = 2
    /\ Len(text_segments(project_data.tracks)) = 2
    /\ text_segments(project_data.tracks)[1].target_timerange.start = 2
    /\ text_segments(project_data.tracks)[2].target_timerange.start = 0
    /\ load_result.captions[1].start = FromMicros(0)

----------------------------------------------------------------------------
\* Properties of the written document (checked under SpecTimeline)

CaptionFields == {"start", "end", "text", "emotion", "chunk_id", "sentence_count"}

\* C14: the caption list the loader reconstructs from a document the
\* serializer wrote equals the list that was serialized, caption by caption
\* on every field: start, end, text, emotion, chunk_id and sentence_count.
C14_EveryFieldReconstructed ==
    (Loaded /\ HasTracks /\ load_result.status = "ok") =>
        /\ Len(load_result.captions) = Len(in_captions)
        /\ \A k \in 1..Len(in_captions) : \A f \in CaptionFields :
             /\ f \in DOMAIN load_result.captions[k]
             /\ load_result.captions[k][f] = in_captions[k][f]

----------------------------------------------------------------------------
\* Properties of the emotion step (checked under SpecEmotion)

Amazing == <<"a", "m", "a", "z", "i", "n", "g">>

\* The keyword sets in the order of the claim, and the emotion of each.
KeywordSets == << HappyWords, SadWords, AngryWords, SurprisedWords >>
CategoryNames == << "happy", "sad", "angry", "surprised" >>

\* The categories with a keyword that occurs in the text, case ignored.
Hits(text) ==
    { c \in 1..Len(KeywordSets) :
        \E k \in 1..Len(KeywordSets[c]) : Contains(Lower(text), KeywordSets[c][k]) }

FirstCategory(text) ==
    IF Hits(text) = {} THEN "neutral"
    ELSE CategoryNames[CHOOSE c \in Hits(text) : \A d \in Hits(text) : c <= d]

\* The keyword method classified every caption of the list (the advanced
\* classifier is not selected), or it classified the caption appended last
\* (the advanced classifier raised).
KeywordOnly == pc \in {"classify", "returned"} /\ ~advanced_selected
KeywordLast ==
    /\ pc \in {"classify", "returned"}
    /\ captions # <<>>
    /\ classified.kind \in {"unused", "load_raises", "call_raises"}

\* C15: the keyword classifier returns the first category, in the order
\* happy, sad, angry, surprised, one of whose keywords occurs in the text as
\* a substring, case ignored, and neutral when none does; a text with
\* "amazing" is happy; the result depends on the text alone.
C15_FirstMatchingCategory ==
    /\ KeywordLast =>
         /\ LastCaption.emotion = FirstCategory(LastCaption.text)
         /\ Contains(Lower(LastCaption.text), Amazing) => LastCaption.emotion = "happy"
    /\ KeywordOnly =>
         \A k \in 1..Len(captions) :
             /\ captions[k].emotion = FirstCategory(captions[k].text)
             /\ \A j \in 1..Len(captions) :
                  captions[j].text = captions[k].text
                    => captions[j].emotion = captions[k].emotion

\* The keyword method on "wow AMAZING": surprised and happy keywords, the
\* latter in upper case.
C15_Witness ==
    /\ KeywordOnly
    /\ pc = "returned"
    /\ Len(captions) = 1
    /\ captions[1].text = <<"w", "o", "w", " ", "A", "M", "A", "Z", "I", "N", "G">>
    /\ captions[1].emotion = "happy"

\* C16: every caption generate produces has an emotion of neutral, happy,
\* sad, angry, surprised, whatever label the advanced classifier returns
\* and whatever the text the keyword method sees; laugh is never produced.
C16_EmotionInClosedSet ==
    pc \in {"classify", "returned"} =>
        \A k \in 1..Len(captions) :
            /\ captions[k].emotion \in Emotions
            /\ captions[k].emotion # "laugh"

\* The advanced classifier returned the label laugh, which is not a key of
\* the table.
C16_Witness ==
    /\ pc = "returned"
    /\ Len(captions) = 1
    /\ classified.kind = "label"
    /\ classified.label = <<"l", "a", "u", "g", "h">>
    /\ captions[1].emotion = "neutral"

----------------------------------------------------------------------------
\* Properties of the serializer (checked under SpecTimeline)

\* create_project has written a document.
Written == tpc \in {"written", "loaded"} /\ HasTracks

\* The number of tracks of a type.
TrackCount(kind) ==
    Cardinality({ k \in 1..Len(project_data.tracks) : project_data.tracks[k].type = kind })

\* The track of a type, when there is exactly one.
TrackOf(kind) ==
    project_data.tracks[CHOOSE k \in 1..Len(project_data.tracks) :
                            project_data.tracks[k].type = kind]

\* C17: the document the serializer builds holds exactly one audio material
\* and one audio track; it holds exactly one video material and one video
\* track when the serializer is given a video reference, and none of either
\* when it is not; for every caption list, the empty one included.
C17_OneAudioVideoIffReference ==
    Written =>
        /\ Len(project_data.materials.audios) = 1
        /\ TrackCount("audio") = 1
        /\ TrackOf("audio").segments[1].material_id = project_data.materials.audios[1].id
        /\ IF video_basename # "None"
           THEN /\ Len(project_data.materials.videos) = 1
                /\ TrackCount("video") = 1
                /\ TrackOf("video").segments[1].material_id
                     = project_data.materials.videos[1].id
           ELSE /\ Len(project_data.materials.videos) = 0
                /\ TrackCount("video") = 0

\* A video reference and no caption.
C17_Witness ==
    /\ Written
    /\ in_captions = <<>>
    /\ video_basename = "video.mp4"
    /\ Len(project_data.materials.videos) = 1
    /\ Len(project_data.tracks) = 2

\* C18: for n captions the document holds n text materials and n text
\* segments, the i-th of each for the i-th caption: the segment refers to
\* its own text material by material_id, carries the caption's text, and
\* has the caption's emotion and chunk_id in its metadata.
C18_TextPerCaption ==
    Written =>
        LET texts == project_data.materials.texts
            segs  == text_segments(project_data.tracks)
            n     == Len(in_captions)
        IN  /\ Len(texts) = n
            /\ Len(segs) = n
            /\ TrackCount("text") = n
            /\ \A k \in 1..n :
                 /\ texts[k].content = in_captions[k].text
                 /\ segs[k].material_id = texts[k].id
                 /\ \A j \in 1..n : j # k => texts[j].id # texts[k].id
                 /\ segs[k].content = in_captions[k].text
                 /\ segs[k].metadata.emotion = in_captions[k].emotion
                 /\ segs[k].metadata.chunk_id = in_captions[k].chunk_id

\* Two captions of different text and emotion, with a video before them.
C18_Witness ==
    /\ Written
    /\ Len(in_captions) = 2
    /\ in_captions[1].emotion = "neutral"
    /\ in_captions[2].emotion = "happy"
    /\ video_basename = "video.mp4"
    /\ Len(project_data.materials.texts) = 2
    /\ text_segments(project_data.tracks)[2].material_id
         = project_data.materials.texts[2].id
    /\ text_segments(project_data.tracks)[2].metadata.chunk_id = 1

----------------------------------------------------------------------------
\* Properties of the captions of generate (checked under Spec)

\* C19: each caption of generate starts where the first sentence of its
\* chunk starts and ends where the last one ends, its text is the texts of
\* the chunk's sentences joined by single spaces, and its sentence_count is
\* the number of sentences of the chunk; so the first caption returned
\* starts at the first word's start and the last ends at the last word's
\* end.
C19_CaptionSpansChunk ==
    Chunked =>
        /\ \A k \in 1..Len(captions) :
             LET chunk == semantic_chunks[k]
             IN  /\ captions[k].start = chunk[1].start
                 /\ captions[k].end = chunk[Len(chunk)].end
                 /\ captions[k].text = Join(Field(chunk, "text"))
                 /\ captions[k].sentence_count = Len(chunk)
        /\ pc = "returned" =>
             /\ captions # <<>>
             /\ captions[1].start = asr_words[1].start
             /\ captions[Len(captions)].end = asr_words[Len(asr_words)].end

\* A caption of two sentences followed by a caption of one.
C19_Witness ==
    /\ pc = "returned"
    /\ Len(captions) = 2
    /\ captions[1].sentence_count = 2
    /\ captions[1].end = sentences[2].end
    /\ captions[1].end > sentences[1].end
    /\ captions[2].sentence_count = 1

----------------------------------------------------------------------------
\* Properties of main() (checked under SpecMain)

\* The thresholds are ones the stages can work with.
ValidThresholds ==
    /\ Config.MAX_SENTENCES_PER_CHUNK >= 1
    /\ Config.MAX_WORDS_PER_SENTENCE >= 1
    /\ Config.MAX_PAUSE_GAP >= 0
    /\ Config.SIMILARITY_THRESHOLD \in 0..100

\* The input source is set and the paths of the configuration exist.
ValidPaths ==
    /\ Config.INPUT_SOURCE # ""
    /\ {"VOSK_MODEL_PATH", "ICONS_FOLDER"} \subseteq fs

\* C20: an invalid threshold or an invalid path is reported by
\* Config.validate as a fatal error before any step of the pipeline runs:
\* no step of VideoPipeline.process is reached with an invalid threshold or
\* path, and main() has exited by the time validate is over.
C20_InvalidConfigurationIsFatal ==
    /\ main_pc \in PipelineSteps \cup {"process", "done"}
         => ValidThresholds /\ ValidPaths
    /\ (main_pc \notin {"main", "validate"} /\ ~(ValidThresholds /\ ValidPaths))
         => main_pc = "exit_1"

----------------------------------------------------------------------------
\* Properties of the generator's models (checked under Spec)

\* C21: over any sequence of generate calls on the generator, the embedding
\* model and the emotion classifier are each constructed at most once; once
\* constructed, the instance is the one every later call uses.
C21_ModelsLoadedAtMostOnce ==
    /\ embedding_loads <= 1
    /\ classifier_loads <= 1
    /\ embedding_loads = 1 <=> embedding_model = "loaded"
    /\ classifier_loads = 1 <=> emotion_classifier = "loaded"

\* The classifier labelled the first caption (the text ok is happy only by
\* its label) and, still the one instance, labelled a later one.
C21_Witness ==
    /\ pc \in {"classify", "returned"}
    /\ Len(captions) >= 2
    /\ captions[1].text = <<"o", "k">>
    /\ captions[1].emotion = "happy"
    /\ classified.kind = "label"
    /\ classifier_loads = 1
    /\ embedding_loads = 1

----------------------------------------------------------------------------
\* The duration of the written document (checked under SpecTimeline)

\* C22: the duration of the document the serializer writes is the end of
\* the last caption of the input list in microseconds, the nearest whole
\* number of them, and 0 when the list is empty.
C22_DurationIsLastEnd ==
    Written =>
        project_data.duration =
            (IF in_captions = <<>> THEN 0
             ELSE RoundMicros(in_captions[Len(in_captions)].end))

----------------------------------------------------------------------------
\* The pauses inside sentences (checked under Spec)

\* The number of pauses between adjacent input words longer than
\* MAX_PAUSE_GAP.
LongPauses ==
    Cardinality({ i \in 1..(Len(asr_words) - 1) :
                    asr_words[i + 1].start - asr_words[i].end > Config.MAX_PAUSE_GAP })

\* C23: inside every sentence the segmenter returns, each word starts at
\* most max_pause_gap after the end of the word before it; two adjacent
\* input words further apart are in different sentences.
C23_NoSentenceCrossesLongPause ==
    Segmented =>
        /\ \A k \in 1..Len(sentences) :
             \A j \in 1..(Len(sentences[k].words) - 1) :
                 sentences[k].words[j + 1].start - sentences[k].words[j].end
                   <= Config.MAX_PAUSE_GAP
        /\ Len(sentences) >= LongPauses + 1

\* Two words a pause of exactly max_pause_gap apart in one sentence, the
\* third after a longer pause in the next.
C23_Witness ==
    /\ pc = "chunk"
    /\ Len(asr_words) = 3
    /\ Len(sentences) = 2
    /\ Len(sentences[1].words) = 2
    /\ asr_words[2].start - asr_words[1].end = Config.MAX_PAUSE_GAP
    /\ asr_words[3].start - asr_words[2].end > Config.MAX_PAUSE_GAP

----------------------------------------------------------------------------
\* The chunks of the scoring path (checked under Spec)

\* The scorer ran to the end on at least two sentences.
Scored == Chunked /\ Len(sentences) >= 2 /\ scoring.fail = "none"

\* The number of sentences in the first k chunks.
RECURSIVE SentencesIn(_)
SentencesIn(k) == IF k = 0 THEN 0 ELSE SentencesIn(k - 1) + Len(semantic_chunks[k])

\* The chunk that holds sentence i, and the place of sentence i in it.
ChunkOf(i) ==
    CHOOSE k \in 1..Len(semantic_chunks) : SentencesIn(k - 1) < i /\ i <= SentencesIn(k)

PlaceInChunk(i) == i - SentencesIn(ChunkOf(i) - 1)

\* C24: on the scoring path the chunks are the sentences cut into
\* contiguous runs, in order, none left out or repeated; sentence i is in
\* the chunk of sentence i-1 exactly when the similarity of the two is
\* strictly above the threshold and that chunk holds fewer than
\* max_sentences_per_chunk sentences when sentence i is reached.
C24_ChunksFollowSimilarityRule ==
    Scored =>
        /\ Flatten(semantic_chunks) = sentences
        /\ \A k \in 1..Len(semantic_chunks) : semantic_chunks[k] # <<>>
        /\ \A i \in 2..Len(sentences) :
             (ChunkOf(i) = ChunkOf(i - 1))
               <=> /\ scoring.sims[i - 1] > SIMILARITY_THRESHOLD
                   /\ PlaceInChunk(i - 1) < Config.MAX_SENTENCES_PER_CHUNK

\* Three sentences, each similar to the one before, and chunks of at most
\* two: the third opens a new chunk.
C24_Witness ==
    /\ Scored
    /\ Len(sentences) = 3
    /\ scoring.sims = << 90, 90 >>
    /\ Config.MAX_SENTENCES_PER_CHUNK = 2
    /\ Len(semantic_chunks) = 2
    /\ Len(semantic_chunks[1]) = 2

----------------------------------------------------------------------------
\* Properties of VideoPipeline.process (checked under SpecMain)

\* The stages of process() in the order of its code.
StageOrder ==
    << "input", "audio", "transcription", "captions", "project", "load", "render" >>

Ran(stage) == \E k \in 1..Len(stages) : stages[k] = stage

\* The stages called so far are the first ones of StageOrder, each once.
StagesInOrder ==
    /\ Len(stages) <= Len(StageOrder)
    /\ \A k \in 1..Len(stages) : stages[k] = StageOrder[k]

\* Nothing is created or rendered after an empty transcription or an empty
\* caption list.
EmptyResultStopsRun ==
    /\ (Ran("transcription") /\ asr_words = <<>>) => ~Ran("captions")
    /\ ((Ran("transcription") /\ asr_words = <<>>) \/ (Ran("captions") /\ captions = <<>>))
         => /\ ~Ran("project") /\ ~Ran("load") /\ ~Ran("render")
            /\ \A k \in 1..Len(projects) : projects[k].name # "NEW"
            /\ render_args = NoRender

\* The renderer was handed the project of this run.
RenderedOwnProject ==
    Ran("render") =>
        LET own == build_capcut_structure(video_basename, "audio.mp3", captions)
        IN  /\ render_args.project = "NEW"
            /\ render_args.captions = nested_captions(own)
            /\ render_args.audio_path = first_material_path(own.materials.audios)

\* C25: the stages of process() run in the order input, transcription,
\* caption generation, project creation, project load, render; after an
\* empty transcription or an empty caption list no project is created and
\* nothing is rendered; the renderer is handed the captions and the media
\* paths of the project step 5 of this run created, whatever other project
\* folders there are.
C25_StagesInOrderOwnProjectRendered ==
    /\ StagesInOrder
    /\ EmptyResultStopsRun
    /\ RenderedOwnProject

====
